---- MODULE Spec2Model ----
(***************************************************************************)
(* aiobgp.messages: serialization and deserialization of BGP messages.     *)
(*                                                                         *)
(* Bytes are the naturals 0..255 and a bytes object is a sequence of them. *)
(* A message object is a record [cls, length, msg_type]; Python's None is  *)
(* the record None.  A call's outcome is a record whose field "raised"     *)
(* names the exception that left the call ("none" when it returned).       *)
(***************************************************************************)
EXTENDS Integers, Sequences, FiniteSets, TLC

VARIABLES
    sent,       \* the messages the peer put on the wire, as descriptions
    stream,     \* the bytes on the wire, in order
    pos,        \* how many bytes of the stream the caller has received
    buf,        \* the caller's receive buffer: received and not yet consumed
    results,    \* what the caller got from the calls that consumed bytes
    call,       \* the latest call of bgp_read_message on the current buffer
    enc,        \* the latest call of encode_header
    dec         \* the latest call of decode_header / decode

vars == <<sent, stream, pos, buf, results, call, enc, dec>>

----------------------------------------------------------------------------
(* Program constants *)

BGP_MESSAGE_HEADERLEN == 19

BGP_MESSAGE_NIL == 0
BGP_MESSAGE_OPEN == 1
BGP_MESSAGE_UPDATE == 2
BGP_MESSAGE_NOTIFICATION == 3
BGP_MESSAGE_KEEPALIVE == 4

MarkerLen == 16
MarkerByte == 255

BGP_MESSAGE_MARKER == [i \in 1..MarkerLen |-> MarkerByte]

\* struct's 'H' is an unsigned 16-bit integer, 'B' an unsigned 8-bit one
UShortMax == 65535
ByteBase == 256

None == [cls |-> "None"]

Classes ==
    {"BGPMessage", "OpenMessage", "UpdateMessage", "NotificationMessage",
     "KeepAliveMessage"}

\* the __messagetype__ attribute of each class
messagetype(cls) ==
    CASE cls = "OpenMessage" -> BGP_MESSAGE_OPEN
      [] cls = "UpdateMessage" -> BGP_MESSAGE_UPDATE
      [] cls = "NotificationMessage" -> BGP_MESSAGE_NOTIFICATION
      [] cls = "KeepAliveMessage" -> BGP_MESSAGE_KEEPALIVE
      [] OTHER -> BGP_MESSAGE_NIL

\* the registry: type byte -> class
bgp_message_types ==
    [t \in {BGP_MESSAGE_OPEN, BGP_MESSAGE_UPDATE, BGP_MESSAGE_NOTIFICATION,
            BGP_MESSAGE_KEEPALIVE} |->
        CASE t = BGP_MESSAGE_OPEN -> "OpenMessage"
          [] t = BGP_MESSAGE_UPDATE -> "UpdateMessage"
          [] t = BGP_MESSAGE_NOTIFICATION -> "NotificationMessage"
          [] t = BGP_MESSAGE_KEEPALIVE -> "KeepAliveMessage"]

----------------------------------------------------------------------------
(* Python and struct primitives *)

Min(a, b) == IF a < b THEN a ELSE b

\* data[a:b] for 0 <= a, 0 <= b: the slice is clamped to the data
Slice(data, a, b) == SubSeq(data, a + 1, Min(b, Len(data)))

pack_H_le(n) ==
    IF n \in 0..UShortMax
    THEN [raised |-> "none", bytes |-> <<n % ByteBase, n \div ByteBase>>]
    ELSE [raised |-> "struct.error", bytes |-> <<>>]

\* struct.pack('!H', n): big-endian, struct.error outside 0..65535
pack_H(n) ==
    IF n \in 0..UShortMax
    THEN [raised |-> "none", bytes |-> <<n \div ByteBase, n % ByteBase>>]
    ELSE [raised |-> "struct.error", bytes |-> <<>>]

\* struct.unpack_from('!HB', data, offset): a 16-bit big-endian integer at
\* offset, then a byte
unpack_from_HB(data, offset) ==
    <<data[offset + 1] * ByteBase + data[offset + 2], data[offset + 3]>>

----------------------------------------------------------------------------
(* class BGPMessage *)

\* BGPMessage.__init__, for an object of class cls
init(cls) ==
    [cls |-> cls, length |-> BGP_MESSAGE_HEADERLEN, msg_type |-> messagetype(cls)]

encode_header_noassert(cls, data) ==
    LET length == Len(data) + BGP_MESSAGE_HEADERLEN
        packed == pack_H(length)
    IN  IF packed.raised # "none"
        THEN [raised |-> packed.raised, bytes |-> <<>>]
        ELSE [raised |-> "none",
              bytes |-> BGP_MESSAGE_MARKER \o packed.bytes
                        \o <<messagetype(cls)>> \o data]

\* BGPMessage.encode_header(self, data), self of class cls
encode_header(cls, data) ==
    IF ~(messagetype(cls) > BGP_MESSAGE_NIL)
    THEN [raised |-> "AssertionError", bytes |-> <<>>]
    ELSE LET length == Len(data) + BGP_MESSAGE_HEADERLEN
             packed == pack_H(length)
         IN  IF packed.raised # "none"
             THEN [raised |-> packed.raised, bytes |-> <<>>]
             ELSE [raised |-> "none",
                   bytes |-> BGP_MESSAGE_MARKER \o packed.bytes
                             \o <<messagetype(cls)>> \o data]

\* BGPMessage.encode(self)
encode(cls) == encode_header(cls, <<>>)

\* BGPMessage.decode_header(data): None, or the header as a record
decode_header(data) ==
    IF Len(data) < BGP_MESSAGE_HEADERLEN
    THEN None
    ELSE LET f == unpack_from_HB(data, MarkerLen)
         IN  [length |-> f[1], msg_type |-> f[2]]

decode_nocopy(cls, data) ==
    IF Len(data) < BGP_MESSAGE_HEADERLEN
    THEN None
    ELSE LET header == decode_header(data)
         IN  IF header = None THEN None ELSE init(cls)

\* cls.decode(data): None, or an object of class cls carrying the header's
\* length and type
decode(cls, data) ==
    IF Len(data) < BGP_MESSAGE_HEADERLEN
    THEN None
    ELSE LET header == decode_header(data)
         IN  IF header = None
             THEN None
             ELSE [init(cls) EXCEPT !.length = header.length,
                                    !.msg_type = header.msg_type]

----------------------------------------------------------------------------
(* bgp_read_message(data): the outcome [raised, msg, consumed] *)

Return(msg, consumed) == [raised |-> "none", msg |-> msg, consumed |-> consumed]

bgp_read_message_eatsheader(data) ==
    IF Len(data) < BGP_MESSAGE_HEADERLEN
    THEN Return(None, 0)
    ELSE LET header == decode("BGPMessage", Slice(data, 0, BGP_MESSAGE_HEADERLEN))
         IN  IF Len(data) < header.length
             THEN Return(None, BGP_MESSAGE_HEADERLEN)
             ELSE IF header.msg_type \notin DOMAIN bgp_message_types
                  THEN Return(None, header.length)
                  ELSE Return(decode(bgp_message_types[header.msg_type],
                                     Slice(data, 0, header.length)),
                              header.length)

bgp_read_message_nolencheck(data) ==
    IF Len(data) < BGP_MESSAGE_HEADERLEN
    THEN Return(None, 0)
    ELSE LET header == decode("BGPMessage", Slice(data, 0, BGP_MESSAGE_HEADERLEN))
         IN  IF header.msg_type \notin DOMAIN bgp_message_types
             THEN Return(None, header.length)
             ELSE Return(decode(bgp_message_types[header.msg_type],
                                Slice(data, 0, header.length)),
                         header.length)

bgp_read_message_skipzero(data) ==
    IF Len(data) < BGP_MESSAGE_HEADERLEN
    THEN Return(None, 0)
    ELSE LET header == decode("BGPMessage", Slice(data, 0, BGP_MESSAGE_HEADERLEN))
         IN  IF Len(data) < header.length
             THEN Return(None, 0)
             ELSE IF header.msg_type \notin DOMAIN bgp_message_types
                  THEN Return(None, 0)
                  ELSE Return(decode(bgp_message_types[header.msg_type],
                                     Slice(data, 0, header.length)),
                              header.length)

bgp_read_message_hdrconsumed(data) ==
    IF Len(data) < BGP_MESSAGE_HEADERLEN
    THEN Return(None, 0)
    ELSE LET header == decode("BGPMessage", Slice(data, 0, BGP_MESSAGE_HEADERLEN))
         IN  IF Len(data) < header.length
             THEN Return(None, 0)
             ELSE IF header.msg_type \notin DOMAIN bgp_message_types
                  THEN Return(None, BGP_MESSAGE_HEADERLEN)
                  ELSE Return(decode(bgp_message_types[header.msg_type],
                                     Slice(data, 0, header.length)),
                              BGP_MESSAGE_HEADERLEN)

bgp_read_message_consumeall(data) ==
    IF Len(data) < BGP_MESSAGE_HEADERLEN
    THEN Return(None, 0)
    ELSE LET header == decode("BGPMessage", Slice(data, 0, BGP_MESSAGE_HEADERLEN))
         IN  IF Len(data) < header.length
             THEN Return(None, 0)
             ELSE IF header.msg_type \notin DOMAIN bgp_message_types
                  THEN Return(None, Len(data))
                  ELSE Return(decode(bgp_message_types[header.msg_type],
                                     Slice(data, 0, header.length)),
                              Len(data))

bgp_read_message(data) ==
    IF Len(data) < BGP_MESSAGE_HEADERLEN
    THEN Return(None, 0)
    ELSE LET header == decode("BGPMessage", Slice(data, 0, BGP_MESSAGE_HEADERLEN))
         IN  IF Len(data) < header.length
             THEN Return(None, 0)
             ELSE IF header.msg_type \notin DOMAIN bgp_message_types
                  THEN Return(None, header.length)
                  ELSE Return(decode(bgp_message_types[header.msg_type],
                                     Slice(data, 0, header.length)),
                              header.length)

----------------------------------------------------------------------------
(* The messages put on the wire.  A message is described by the marker     *)
(* byte that is corrupted (0: none), the value of its length field, its    *)
(* type byte and its body; Wire gives its bytes.                           *)

MaxMsgs == 2    \* messages in a stream
MaxBody == 2    \* bytes in a short body

Fill(n, b) == [i \in 1..n |-> b]

Desc(bad, length, type, body) ==
    [bad |-> bad, length |-> length, type |-> type, body |-> body]

\* correct marker, and a length field that is the message's size
WellFormed(d) ==
    d.bad = 0 /\ d.length = BGP_MESSAGE_HEADERLEN + Len(d.body)

RawFrame(d) ==
    [i \in 1..MarkerLen |-> IF i = d.bad THEN 0 ELSE MarkerByte]
    \o <<d.length \div ByteBase, d.length % ByteBase>> \o <<d.type>> \o d.body

\* a well-formed message of a registered type is what this library's encoder
\* sends; the others come from a peer that is not this library
Wire(d) ==
    IF WellFormed(d) /\ d.type \in DOMAIN bgp_message_types
    THEN encode_header(bgp_message_types[d.type], d.body).bytes
    ELSE RawFrame(d)

Descs ==
    { Desc(0, BGP_MESSAGE_HEADERLEN + MaxBody, BGP_MESSAGE_OPEN,
           Fill(MaxBody, MarkerByte)),
      Desc(0, BGP_MESSAGE_HEADERLEN, BGP_MESSAGE_KEEPALIVE, <<>>),
      Desc(0, BGP_MESSAGE_HEADERLEN + 1, BGP_MESSAGE_NOTIFICATION, <<6>>),
      \* a type that is not registered
      Desc(0, BGP_MESSAGE_HEADERLEN + MaxBody, 5, Fill(MaxBody, 0)),
      \* a length field below the header's size
      Desc(0, BGP_MESSAGE_HEADERLEN - 1, BGP_MESSAGE_KEEPALIVE, <<>>),
      Desc(0, 0, BGP_MESSAGE_OPEN, <<>>),
      Desc(0, 5, BGP_MESSAGE_NIL, <<>>),
      \* a corrupted marker
      Desc(1, BGP_MESSAGE_HEADERLEN, BGP_MESSAGE_KEEPALIVE, <<>>),
      \* a length field above the bytes that follow
      Desc(0, BGP_MESSAGE_HEADERLEN + MaxBody + 1, BGP_MESSAGE_UPDATE,
           Fill(MaxBody, MarkerByte)) }

\* a message whose length needs the high byte of the length field
LongDesc ==
    Desc(0, ByteBase, BGP_MESSAGE_UPDATE, Fill(ByteBase - BGP_MESSAGE_HEADERLEN, 0))

RECURSIVE DescSeqs(_)
DescSeqs(n) ==
    IF n = 0 THEN {<<>>}
    ELSE {<<d>> \o s : d \in Descs, s \in DescSeqs(n - 1)}

Sent == UNION {DescSeqs(n) : n \in 0..MaxMsgs} \cup {<<LongDesc>>}

RECURSIVE Concat(_)
Concat(ds) == IF ds = <<>> THEN <<>> ELSE Wire(Head(ds)) \o Concat(Tail(ds))

----------------------------------------------------------------------------
(* The receiving caller: it appends what arrives to its buffer, calls      *)
(* bgp_read_message on the buffer and advances by the consumed count.      *)

NoCall == [made |-> FALSE]
NoEnc == [made |-> FALSE]
NoDec == [made |-> FALSE]

Init ==
    /\ sent \in Sent
    /\ stream = Concat(sent)
    /\ pos = 0
    /\ buf = <<>>
    /\ results = <<>>
    /\ call = NoCall
    /\ enc = NoEnc
    /\ dec = NoDec

\* the next byte of the stream arrives (a chunk of k bytes is k such steps)
Feed ==
    /\ pos < Len(stream)
    /\ pos' = pos + 1
    /\ buf' = Append(buf, stream[pos + 1])
    /\ call' = NoCall
    /\ UNCHANGED <<sent, stream, results, enc, dec>>

\* one call of bgp_read_message on the buffer, and the advance by its count
Read ==
    \E r \in {bgp_read_message(buf)} :
        /\ call' = [made |-> TRUE, data |-> buf, ret |-> r]
        /\ buf' = Slice(buf, r.consumed, Len(buf))
        /\ results' = IF r.consumed # 0 THEN Append(results, r) ELSE results
        /\ UNCHANGED <<sent, stream, pos, enc, dec>>

Next == Feed \/ Read

Spec == Init /\ [][Next]_vars

\* the caller calls again while a call can still consume bytes
FairSpec == Spec /\ WF_vars(Read)

----------------------------------------------------------------------------
(* The codec on its own: encode_header called with any class and body,     *)
(* decode_header and decode called on what was encoded or on bytes that    *)
(* came from elsewhere.                                                    *)

BodyBytes == {0, MarkerByte}

RECURSIVE BytesOfLen(_)
BytesOfLen(n) ==
    IF n = 0 THEN {<<>>}
    ELSE {<<b>> \o s : b \in BodyBytes, s \in BytesOfLen(n - 1)}

\* the short bodies, a body that needs the high byte of the length field,
\* and the longest body whose length fits the field and the one after it
Bodies ==
    UNION {BytesOfLen(n) : n \in 0..MaxBody}
    \cup {Fill(ByteBase - BGP_MESSAGE_HEADERLEN, 0),
          Fill(UShortMax - BGP_MESSAGE_HEADERLEN, 0),
          Fill(UShortMax - BGP_MESSAGE_HEADERLEN + 1, 0)}

\* bytes that did not come from the encoder, whole or cut short
DecodeInputs ==
    {Slice(RawFrame(d), 0, k) :
        d \in Descs, k \in {0, MarkerLen, BGP_MESSAGE_HEADERLEN - 1,
                            BGP_MESSAGE_HEADERLEN + MaxBody + 1}}

InitCodec ==
    /\ sent = <<>>
    /\ stream \in DecodeInputs
    /\ pos = 0
    /\ buf = <<>>
    /\ results = <<>>
    /\ call = NoCall
    /\ enc = NoEnc
    /\ dec = NoDec

\* cls().encode_header(body); the bytes it returns are what is decoded next
Encode(cls, body) ==
    LET out == encode_header(cls, body)
    IN  /\ enc' = [made |-> TRUE, cls |-> cls, body |-> body, out |-> out]
        /\ stream' = IF out.raised = "none" THEN out.bytes ELSE <<>>
        /\ dec' = NoDec
        /\ UNCHANGED <<sent, pos, buf, results, call>>

\* cls().encode(): the message with an empty body
EncodeMessage(cls) ==
    LET out == encode(cls)
    IN  /\ enc' = [made |-> TRUE, cls |-> cls, body |-> <<>>, out |-> out]
        /\ stream' = IF out.raised = "none" THEN out.bytes ELSE <<>>
        /\ dec' = NoDec
        /\ UNCHANGED <<sent, pos, buf, results, call>>

\* BGPMessage.decode_header(stream) and cls.decode(stream)
Decode(cls) ==
    /\ dec' = [made |-> TRUE, cls |-> cls, data |-> stream,
               header |-> decode_header(stream),
               msg |-> decode(cls, stream)]
    /\ UNCHANGED <<sent, stream, pos, buf, results, call, enc>>

NextCodec ==
    \/ \E cls \in Classes, body \in Bodies : Encode(cls, body)
    \/ \E cls \in Classes : EncodeMessage(cls)
    \/ \E cls \in Classes : Decode(cls)

SpecCodec == InitCodec /\ [][NextCodec]_vars

----------------------------------------------------------------------------
(* What the claims speak of, stated without the program's operators *)

\* the 16-bit big-endian length field at offset 16 and the type byte at 18
LengthField(data) == data[MarkerLen + 1] * ByteBase + data[MarkerLen + 2]
TypeByte(data) == data[MarkerLen + 3]

HasHeader(data) == Len(data) >= BGP_MESSAGE_HEADERLEN
Complete(data) == HasHeader(data) /\ Len(data) >= LengthField(data)

KnownTypes == {1, 2, 3, 4}

\* 1=OPEN, 2=UPDATE, 3=NOTIFICATION, 4=KEEPALIVE
VariantOf(t) ==
    CASE t = 1 -> "OpenMessage"
      [] t = 2 -> "UpdateMessage"
      [] t = 3 -> "NotificationMessage"
      [] t = 4 -> "KeepAliveMessage"

TypeOf(cls) ==
    CASE cls = "OpenMessage" -> 1
      [] cls = "UpdateMessage" -> 2
      [] cls = "NotificationMessage" -> 3
      [] cls = "KeepAliveMessage" -> 4
      [] OTHER -> 0

Returned(msg, consumed) ==
    [raised |-> "none", msg |-> msg, consumed |-> consumed]

Message(t, length) == [cls |-> VariantOf(t), length |-> length, msg_type |-> t]

\* the caller has advanced its buffer by the count of the latest call
Advanced(n) == buf = SubSeq(call.data, n + 1, Len(call.data))

\* C1: a buffer shorter than 19 bytes, or of at least 19 bytes and shorter
\* than its length field, makes bgp_read_message return (None, 0): no message,
\* nothing consumed, and the caller's buffer stays as it was.
C1_PartialData ==
    (call.made /\ (~HasHeader(call.data) \/ ~Complete(call.data)))
        => (call.ret = Returned(None, 0) /\ buf = call.data)

C1_Witness ==
    /\ call.made
    /\ HasHeader(call.data)
    /\ Len(call.data) < LengthField(call.data)
    /\ LengthField(call.data) >= ByteBase
    /\ call.ret.consumed = 0

\* C2 as claimed: a complete buffer with a registered type byte gives
\* (message, header.length), the message of the registered variant and with
\* the header's type and length, for every value of the length field, those
\* below 19 included.
C2_Original ==
    (call.made /\ Complete(call.data) /\ TypeByte(call.data) \in KnownTypes)
        => call.ret = Returned(Message(TypeByte(call.data), LengthField(call.data)),
                               LengthField(call.data))

\* C2 as amended: that holds when the length field is at least 19; when it is
\* below 19 the call returns (None, header.length).
C2_KnownType ==
    (call.made /\ Complete(call.data) /\ TypeByte(call.data) \in KnownTypes)
        => /\ LengthField(call.data) >= BGP_MESSAGE_HEADERLEN
                => call.ret = Returned(Message(TypeByte(call.data),
                                               LengthField(call.data)),
                                       LengthField(call.data))
           /\ LengthField(call.data) < BGP_MESSAGE_HEADERLEN
                => call.ret = Returned(None, LengthField(call.data))
           /\ Advanced(LengthField(call.data))

C2_Witness ==
    /\ call.made
    /\ Complete(call.data)
    /\ TypeByte(call.data) = 2
    /\ LengthField(call.data) > BGP_MESSAGE_HEADERLEN
    /\ Len(call.data) > LengthField(call.data)
    /\ call.ret.msg # None
    /\ call.ret.msg.cls = "UpdateMessage"

\* C3: a complete buffer whose type byte is not registered gives
\* (None, header.length) and no error, and the caller advances by exactly the
\* declared length.
C3_UnknownTypeSkip ==
    (call.made /\ Complete(call.data) /\ TypeByte(call.data) \notin KnownTypes)
        => /\ call.ret = Returned(None, LengthField(call.data))
           /\ Advanced(LengthField(call.data))

C3_Witness ==
    /\ call.made
    /\ Complete(call.data)
    /\ TypeByte(call.data) = 5
    /\ LengthField(call.data) > BGP_MESSAGE_HEADERLEN
    /\ call.ret.msg = None
    /\ call.ret.consumed = LengthField(call.data)
    /\ buf # <<>>

\* C4: a buffer of at least 19 bytes with a marker byte that is not 0xFF makes
\* the call fail with InvalidMarker: it is neither decoded into a message nor
\* reported as needing more data.
C4_MarkerValidation ==
    (call.made /\ HasHeader(call.data)
        /\ \E i \in 1..MarkerLen : call.data[i] # MarkerByte)
        => call.ret.raised = "InvalidMarker"

\* the bytes the wire format prescribes for a message of type t with body b
Layout(t, b) ==
    [i \in 1..MarkerLen |-> MarkerByte]
    \o <<(Len(b) + BGP_MESSAGE_HEADERLEN) \div ByteBase,
         (Len(b) + BGP_MESSAGE_HEADERLEN) % ByteBase>>
    \o <<t>> \o b

Supported == {"OpenMessage", "UpdateMessage", "NotificationMessage",
              "KeepAliveMessage"}

\* C5 as claimed: for every supported type T and every body b, encode_header
\* produces 16 bytes of 0xFF, the big-endian length len(b) + 19, the type byte
\* and b, and decoding them yields length = len(b) + 19 and type = T;
\* decode(encode(KeepAliveMessage())) is a fresh KeepAliveMessage.
C5_Original ==
    (enc.made /\ enc.cls \in Supported)
        => /\ enc.out.raised = "none"
           /\ enc.out.bytes = Layout(TypeOf(enc.cls), enc.body)
           /\ dec.made
                => dec.header = [length |-> Len(enc.body) + BGP_MESSAGE_HEADERLEN,
                                 msg_type |-> TypeOf(enc.cls)]

\* C5 as amended: that holds for every body of at most 65516 bytes, whose
\* length with the header fits the 16-bit field; for a longer body
\* encode_header raises struct.error and produces no bytes.
C5_RoundTrip ==
    (enc.made /\ enc.cls \in Supported)
        => IF Len(enc.body) + BGP_MESSAGE_HEADERLEN <= UShortMax
           THEN /\ enc.out.raised = "none"
                /\ enc.out.bytes = Layout(TypeOf(enc.cls), enc.body)
                /\ stream = enc.out.bytes
                /\ dec.made
                     => /\ dec.data = enc.out.bytes
                        /\ dec.header =
                             [length |-> Len(enc.body) + BGP_MESSAGE_HEADERLEN,
                              msg_type |-> TypeOf(enc.cls)]
                        /\ dec.msg =
                             [cls |-> dec.cls,
                              length |-> Len(enc.body) + BGP_MESSAGE_HEADERLEN,
                              msg_type |-> TypeOf(enc.cls)]
                /\ (dec.made /\ enc.cls = "KeepAliveMessage" /\ enc.body = <<>>
                        /\ dec.cls = "KeepAliveMessage")
                     => dec.msg = [cls |-> "KeepAliveMessage",
                                   length |-> BGP_MESSAGE_HEADERLEN,
                                   msg_type |-> 4]
           ELSE /\ enc.out.raised = "struct.error"
                /\ enc.out.bytes = <<>>

C5_Witness ==
    /\ enc.made
    /\ enc.cls = "UpdateMessage"
    /\ Len(enc.body) + BGP_MESSAGE_HEADERLEN = ByteBase
    /\ dec.made
    /\ dec.header = [length |-> ByteBase, msg_type |-> 2]

\* the messages of the stream are all well formed
AllWellFormed == \A i \in 1..Len(sent) : WellFormed(sent[i])

\* what the call that frames message d is to return
Expected(d) ==
    Returned(IF d.type \in KnownTypes THEN Message(d.type, d.length) ELSE None,
             d.length)

RECURSIVE SizeOfFirst(_)
SizeOfFirst(k) == IF k = 0 THEN 0 ELSE SizeOfFirst(k - 1) + sent[k].length

\* C6: on a stream of n well-formed messages, the calls that consume bytes
\* are at most n, the i-th of them returns the i-th message and consumes its
\* header.length, whatever follows the message in the buffer; the buffer is
\* the received bytes after the messages consumed; and when the whole stream
\* is buffered and a call consumes nothing, n calls have consumed bytes and
\* the buffer is empty.
C6_SequentialDraining ==
    AllWellFormed
        => /\ Len(results) <= Len(sent)
           /\ \A i \in 1..Len(results) : results[i] = Expected(sent[i])
           /\ buf = SubSeq(stream, SizeOfFirst(Len(results)) + 1, pos)
           /\ (pos = Len(stream) /\ call.made /\ call.ret.consumed = 0)
                => (Len(results) = Len(sent) /\ buf = <<>>)

\* two concatenated KEEPALIVEs, the first call made on all 38 bytes
C6_Witness ==
    /\ Len(sent) = 2
    /\ \A i \in 1..2 : sent[i] = Desc(0, BGP_MESSAGE_HEADERLEN, 4, <<>>)
    /\ call.made
    /\ call.data = stream
    /\ Len(results) = 1
    /\ results[1].consumed = BGP_MESSAGE_HEADERLEN
    /\ Len(buf) = BGP_MESSAGE_HEADERLEN

\* C7: every header decode_header produces, and every message decode or
\* bgp_read_message returns, has length >= 19, whatever the buffer's length
\* field holds.
C7_LengthInvariant ==
    /\ dec.made
         => /\ dec.header # None => dec.header.length >= BGP_MESSAGE_HEADERLEN
            /\ dec.msg # None => dec.msg.length >= BGP_MESSAGE_HEADERLEN
    /\ (call.made /\ call.ret.msg # None)
         => call.ret.msg.length >= BGP_MESSAGE_HEADERLEN

C9_ConsumedBound ==
    call.made
        => /\ \/ call.ret.consumed = 0
              \/ HasHeader(call.data) /\ call.ret.consumed = LengthField(call.data)
           /\ call.ret.consumed <= Len(call.data)
           /\ call.ret.msg # None => call.ret.consumed >= BGP_MESSAGE_HEADERLEN
           /\ Len(buf) = Len(call.data) - call.ret.consumed

C9_Witness ==
    /\ call.made
    /\ call.ret.msg # None
    /\ call.ret.consumed > BGP_MESSAGE_HEADERLEN
    /\ call.ret.consumed < Len(call.data)

\* what the caller gets when data is buffered whole before the first call
RECURSIVE DrainAll(_)
DrainAll(data) ==
    LET r == bgp_read_message(data)
    IN  IF r.consumed = 0
        THEN <<>>
        ELSE <<r>> \o DrainAll(SubSeq(data, r.consumed + 1, Len(data)))

IsPrefix(s, t) == Len(s) <= Len(t) /\ s = SubSeq(t, 1, Len(s))

\* the stream has arrived whole and the latest call consumed nothing
Quiescent == pos = Len(stream) /\ call.made /\ call.ret.consumed = 0

ChunkingIndependent ==
    /\ IsPrefix(results, DrainAll(stream))
    /\ Quiescent => results = DrainAll(stream)

\* C10: however the stream is cut into chunks, the results the caller gets
\* from the calls that consume bytes are those it gets with the whole stream
\* buffered before the first call; and once a stream of well-formed messages
\* has arrived whole, every message is delivered and the buffer empties.
C10_ChunkingIndependence ==
    /\ []ChunkingIndependent
    /\ (AllWellFormed /\ pos = Len(stream))
         ~> (buf = <<>> /\ Len(results) = Len(sent))

\* the first message was delivered before the stream had arrived whole, and a
\* call on the part of the second that has arrived consumed nothing
C10_Witness ==
    /\ Len(sent) = 2
    /\ AllWellFormed
    /\ Len(results) = 1
    /\ pos < Len(stream)
    /\ call.made
    /\ call.ret.consumed = 0
    /\ buf # <<>>

====
